---- MODULE Spec2Model ----
(***************************************************************************)
(* Model of src/encoded-map.ts: EncodedSourceMapImpl (constructor/decode,  *)
(* maybeSort, decodedMappings, traceSegment, encodedMappings) and the VLQ  *)
(* reader decodeInteger.                                                   *)
(*                                                                         *)
(* Representation of numbers.  A Uint32Array element u (0 .. 2^32-1) is    *)
(* held as the signed 32-bit integer with the same bit pattern (u itself   *)
(* below 2^31, u - 2^32 from 2^31 on): TLC's integers are 32 bits wide.    *)
(* Additions wrap modulo 2^32 (AddWrap), order on elements is the unsigned *)
(* order (ULt).  A materialized field (element - 1, in -1 .. 2^32-2) is    *)
(* held the same way; the encoding is one-to-one on that range.            *)
(* Buffer indices are 0-based as in the source; At reads a 0-based index.  *)
(***************************************************************************)
EXTENDS Integers, Sequences, FiniteSets, TLC

VARIABLES encoded, pc, pos, count, generatedColumn, sourcesIndex, sourceLine,
          sourceColumn, namesIndex, decoded, capacity, lastLineStart,
          lineIndices, mappings, lastIndex, lastLine, lastColumn, result,
          vlqInput, vlqState, vlqPos, vlqPc

vars == <<encoded, pc, pos, count, generatedColumn, sourcesIndex, sourceLine,
          sourceColumn, namesIndex, decoded, capacity, lastLineStart,
          lineIndices, mappings, lastIndex, lastLine, lastColumn, result,
          vlqInput, vlqState, vlqPos, vlqPc>>

decodeVars == <<pos, count, generatedColumn, sourcesIndex, sourceLine,
                sourceColumn, namesIndex, decoded, capacity, lastLineStart>>

cursorVars == <<lastIndex, lastLine, lastColumn>>

vlqVars == <<vlqInput, vlqState, vlqPos, vlqPc>>

----------------------------------------------------------------------------
(* Bounds of the model *)

\* longest token sequence an enumerated input string is built from
MaxTokens == 3
\* traceSegment is called with line in 0 .. MaxLine
MaxLine == 2
\* traceSegment is called with column in 0 .. MaxColumn
MaxColumn == 2
\* longest digit sequence handed to decodeInteger on its own
VlqMaxLen == 6

----------------------------------------------------------------------------
(* Program constants *)

ITEM_LENGTH == 5
InitialCapacity == 1000
MaxInt32 == 2147483647
MinInt32 == (-MaxInt32) - 1

base64 == "ABCDEFGHIJKLMNOPQRSTUVWXYZabcdefghijklmnopqrstuvwxyz0123456789+/="

----------------------------------------------------------------------------
(* 32-bit arithmetic *)

Max(a, b) == IF a >= b THEN a ELSE b

\* a + b stored into a Uint32Array element: the sum modulo 2^32
AddWrap(a, b) ==
    IF a >= 0 /\ b >= 0 /\ a > MaxInt32 - b
    THEN ((a - MaxInt32) - 1) + ((b - MaxInt32) - 1)
    ELSE IF a < 0 /\ b < 0 /\ a < MinInt32 - b
    THEN ((a + MaxInt32) + 1) + ((b + MaxInt32) + 1)
    ELSE a + b

\* unsigned order of two elements
ULt(a, b) == IF (a < 0) = (b < 0) THEN a < b ELSE a >= 0

ULe(a, b) == a = b \/ ULt(a, b)

\* the low 31 bits of a 32-bit pattern
Low31(w) == IF w >= 0 THEN w ELSE (w + MaxInt32) + 1

RECURSIVE Or31(_, _)
Or31(a, b) ==
    IF a = 0 THEN b
    ELSE IF b = 0 THEN a
    ELSE (IF a % 2 = 1 \/ b % 2 = 1 THEN 1 ELSE 0) + 2 * Or31(a \div 2, b \div 2)

\* a | b on 32-bit patterns
Or32(a, b) ==
    LET low == Or31(Low31(a), Low31(b))
    IN  IF a < 0 \/ b < 0 THEN (low - MaxInt32) - 1 ELSE low

RECURSIVE Shl32(_, _)
\* x << s on 32-bit patterns, s already reduced modulo 32
Shl32(x, s) == IF s = 0 THEN x ELSE Shl32(AddWrap(x, x), s - 1)

\* x >>> 1
Ushr1(w) == IF w >= 0 THEN w \div 2 ELSE (Low31(w) \div 2) + 1073741824

----------------------------------------------------------------------------
(* Strings *)

\* encoded.charCodeAt(p): the character, or "NaN" past the end of the string
charCodeAt(s, p) == IF p >= 0 /\ p < Len(s) THEN SubSeq(s, p + 1, p + 1) ELSE "NaN"

\* base64Index[c]: the table is zero wherever no digit was entered, and an
\* index of NaN reads undefined, which the bit operations take as 0
base64Index(c) ==
    IF \E i \in 1..Len(base64) : SubSeq(base64, i, i) = c
    THEN (CHOOSE i \in 1..Len(base64) : SubSeq(base64, i, i) = c) - 1
    ELSE 0

hasMoreMappings(s, p) ==
    IF p = Len(s) THEN FALSE
    ELSE LET c == charCodeAt(s, p) IN c /= "," /\ c /= ";"

RECURSIVE decodeIntegerLoop(_, _, _, _)
\* the do/while of decodeInteger; yields the reassembled value and the position
decodeIntegerLoop(s, p, value, shift) ==
    LET integer == base64Index(charCodeAt(s, p))
        v       == Or32(value, Shl32(integer % 32, shift % 32))
    IN  IF (integer \div 32) % 2 = 1
        THEN decodeIntegerLoop(s, p + 1, v, shift + 5)
        ELSE [value |-> v, pos |-> p + 1]

\* a mutant of decodeInteger: the sign flag is not shifted out of the value
decodeIntegerKeepsFlag(s, p) ==
    LET r            == decodeIntegerLoop(s, p, 0, 0)
        shouldNegate == Low31(r.value) % 2 = 1
    IN  [value |-> IF shouldNegate THEN Or32(MinInt32, -Ushr1(r.value)) ELSE r.value,
         pos |-> r.pos]

\* decodeInteger(encoded, pos, state, index): value is what is stored in
\* state[index], pos is what is returned
decodeInteger(s, p) ==
    LET r            == decodeIntegerLoop(s, p, 0, 0)
        shouldNegate == Low31(r.value) % 2 = 1
        shifted      == Ushr1(r.value)
    IN  [value |-> IF shouldNegate THEN Or32(MinInt32, -shifted) ELSE shifted,
         pos |-> r.pos]

----------------------------------------------------------------------------
(* The flat buffer *)

\* state[i], i 0-based
At(state, i) == state[i + 1]

\* state.slice(from, to)
slice(state, from, to) == SubSeq(state, from + 1, to)

\* buf.length after reserve(buf, pos, count); the contents are copied over
reserve(bufLength, p, n) == IF bufLength > p + n THEN bufLength ELSE bufLength * 2

\* mappings[i + k] - 1 as a number
Unbias(w) == IF w = MinInt32 THEN MaxInt32 ELSE w - 1

segmentify(m, i) ==
    IF At(m, i + 1) = 0 THEN <<At(m, i)>>
    ELSE IF At(m, i + 4) = 0
    THEN <<At(m, i), Unbias(At(m, i + 1)), Unbias(At(m, i + 2)), Unbias(At(m, i + 3))>>
    ELSE <<At(m, i), Unbias(At(m, i + 1)), Unbias(At(m, i + 2)), Unbias(At(m, i + 3)),
           Unbias(At(m, i + 4))>>

isSorted(state, start, end) ==
    \A i \in (start + ITEM_LENGTH)..(end - 1) :
        (i - start) % ITEM_LENGTH = 0 => ~ULt(At(state, i), At(state, i - ITEM_LENGTH))

\* the sign of a[0] - b[0]
sortComparator(a, b) == IF a[1] = b[1] THEN 0 ELSE IF ULt(a[1], b[1]) THEN -1 ELSE 1

\* the sign of column - needle
searchComparator(column, needle) ==
    IF column = needle THEN 0 ELSE IF ULt(column, needle) THEN -1 ELSE 1

RECURSIVE InsertStable(_, _)
\* x placed behind every element of the sorted run that does not compare greater
InsertStable(x, run) ==
    IF run = <<>> THEN <<x>>
    ELSE IF sortComparator(Head(run), x) <= 0
    THEN <<Head(run)>> \o InsertStable(x, Tail(run))
    ELSE <<x>> \o run

RECURSIVE SortStable(_, _)
\* segments.sort(sortComparator): Array.prototype.sort is stable
SortStable(segments, run) ==
    IF segments = <<>> THEN run
    ELSE SortStable(Tail(segments), InsertStable(Head(segments), run))

RECURSIVE Concat(_)
Concat(segments) ==
    IF segments = <<>> THEN <<>> ELSE Head(segments) \o Concat(Tail(segments))

\* a mutant of maybeSort: the line is left as it was decoded
maybeSortSkipped(state, start, end) == state

\* maybeSort(state, start, end): the buffer afterwards.  The loop pushes
\* state.slice(start, start + ITEM_LENGTH) on every iteration (line 190), so
\* every extracted segment is a copy of the line's first record.
maybeSort(state, start, end) ==
    IF isSorted(state, start, end) THEN state
    ELSE LET n        == ((end - start) + (ITEM_LENGTH - 1)) \div ITEM_LENGTH
             segments == [k \in 1..n |-> slice(state, start, start + ITEM_LENGTH)]
             sorted   == SortStable(segments, <<>>)
         IN  SubSeq(state, 1, start) \o Concat(sorted) \o SubSeq(state, end + 1, Len(state))

----------------------------------------------------------------------------
(* Input strings *)

Tokens == {";", ",", "A", "C", "D", "CACA"}

RECURSIVE Flatten(_)
Flatten(ts) == IF ts = <<>> THEN "" ELSE Head(ts) \o Flatten(Tail(ts))

SmallInputs == { Flatten(ts) : ts \in UNION { [1..n -> Tokens] : n \in 0..MaxTokens } }

\* longer strings: the example of the format, names, multi-digit values,
\* equal columns, lines out of order, a lone sign flag, ill-formed groups
ExtraInputs ==
    { "AAAA,SAAS;KACA", "AAAAC,CAAAC", "gB,hB", "AAAA,AACA,AACA,AACA",
      "EAAA,DACA;A", "A;EAAA,DACA,DACA", "CACA;A,CACA,C", "B", "CDAA", "AA;A",
      "D,A;;" }

Inputs == SmallInputs \cup ExtraInputs

----------------------------------------------------------------------------
(* Construction: decode, one step per iteration of its scanning loop *)

Init ==
    /\ encoded \in Inputs
    /\ pc = "decode"
    /\ pos = 0
    /\ count = 0
    /\ generatedColumn = 0
    /\ sourcesIndex = 1
    /\ sourceLine = 1
    /\ sourceColumn = 1
    /\ namesIndex = 1
    /\ decoded = <<>>
    /\ capacity = InitialCapacity
    /\ lastLineStart = 0
    /\ lineIndices = <<0>>
    /\ mappings = <<>>
    /\ lastIndex = 0
    /\ lastLine = 0
    /\ lastColumn = 0
    /\ result = [op |-> "none"]
    /\ vlqInput = ""
    /\ vlqState = <<0>>
    /\ vlqPos = 0
    /\ vlqPc = "off"

\* case 44
DecodeComma ==
    /\ pc = "decode"
    /\ pos < Len(encoded)
    /\ charCodeAt(encoded, pos) = ","
    /\ pos' = pos + 1
    /\ UNCHANGED <<encoded, pc, count, generatedColumn, sourcesIndex, sourceLine,
                   sourceColumn, namesIndex, decoded, capacity, lastLineStart,
                   lineIndices, mappings, cursorVars, result, vlqVars>>

\* a mutant of case 59: the column accumulator is carried into the next line
DecodeSemicolonKeepsColumn ==
    /\ pc = "decode"
    /\ pos < Len(encoded)
    /\ charCodeAt(encoded, pos) = ";"
    /\ lineIndices' = Append(lineIndices, count)
    /\ decoded' = maybeSort(decoded, lastLineStart, count)
    /\ lastLineStart' = count
    /\ pos' = pos + 1
    /\ UNCHANGED <<encoded, pc, count, generatedColumn, sourcesIndex, sourceLine,
                   sourceColumn, namesIndex, capacity, mappings, cursorVars, result,
                   vlqVars>>

\* case 59
DecodeSemicolon ==
    /\ pc = "decode"
    /\ pos < Len(encoded)
    /\ charCodeAt(encoded, pos) = ";"
    /\ generatedColumn' = 0
    /\ lineIndices' = Append(lineIndices, count)
    /\ decoded' = maybeSort(decoded, lastLineStart, count)
    /\ lastLineStart' = count
    /\ pos' = pos + 1
    /\ UNCHANGED <<encoded, pc, count, sourcesIndex, sourceLine, sourceColumn,
                   namesIndex, capacity, mappings, cursorVars, result, vlqVars>>

\* default: one record.  The accumulators are kept modulo 2^32: the source
\* keeps the unreduced sums, which are only ever added to and stored again
\* into Uint32 elements.
DecodeSegment ==
    /\ pc = "decode"
    /\ pos < Len(encoded)
    /\ charCodeAt(encoded, pos) \notin {",", ";"}
    /\ LET r0 == decodeInteger(encoded, pos)
           f0 == AddWrap(r0.value, generatedColumn)
           r1 == decodeInteger(encoded, r0.pos)
           f1 == AddWrap(r1.value, sourcesIndex)
           r2 == decodeInteger(encoded, r1.pos)
           f2 == AddWrap(r2.value, sourceLine)
           r3 == decodeInteger(encoded, r2.pos)
           f3 == AddWrap(r3.value, sourceColumn)
           r4 == decodeInteger(encoded, r3.pos)
           f4 == AddWrap(r4.value, namesIndex)
       IN  /\ capacity' = reserve(capacity, count, ITEM_LENGTH)
           /\ generatedColumn' = f0
           /\ count' = count + ITEM_LENGTH
           /\ IF ~hasMoreMappings(encoded, r0.pos)
              THEN /\ decoded' = decoded \o <<f0, 0, 0, 0, 0>>
                   /\ pos' = r0.pos
                   /\ UNCHANGED <<sourcesIndex, sourceLine, sourceColumn, namesIndex>>
              ELSE /\ sourcesIndex' = f1
                   /\ sourceLine' = f2
                   /\ sourceColumn' = f3
                   /\ IF ~hasMoreMappings(encoded, r3.pos)
                      THEN /\ decoded' = decoded \o <<f0, f1, f2, f3, 0>>
                           /\ pos' = r3.pos
                           /\ UNCHANGED namesIndex
                      ELSE /\ decoded' = decoded \o <<f0, f1, f2, f3, f4>>
                           /\ pos' = r4.pos
                           /\ namesIndex' = f4
    /\ UNCHANGED <<encoded, pc, lastLineStart, lineIndices, mappings, cursorVars,
                   result, vlqVars>>

\* the loop is left: the last line is closed and the buffer trimmed
DecodeEnd ==
    /\ pc = "decode"
    /\ pos >= Len(encoded)
    /\ lineIndices' = Append(lineIndices, count)
    /\ decoded' = maybeSort(decoded, lastLineStart, count)
    /\ mappings' = SubSeq(decoded', 1, count)
    /\ pc' = "ready"
    /\ UNCHANGED <<encoded, pos, count, generatedColumn, sourcesIndex, sourceLine,
                   sourceColumn, namesIndex, capacity, lastLineStart, cursorVars,
                   result, vlqVars>>

----------------------------------------------------------------------------
(* binary-search.ts is not part of the sources at hand; the search is taken *)
(* from the description of the query engine: a binary search for the query  *)
(* column that yields the index of a record it hits, otherwise the record   *)
(* before the insertion point, and a negative index when there is none;     *)
(* memoized by the last line, column and index.                             *)

RECURSIVE binarySearchLoop(_, _, _, _, _, _)
\* lo and hi count records from index base
binarySearchLoop(haystack, needle, base, itemLength, lo, hi) ==
    IF lo > hi
    THEN IF lo = 0 THEN -1 ELSE base + (lo - 1) * itemLength
    ELSE LET mid == lo + ((hi - lo) \div 2)
             cmp == searchComparator(At(haystack, base + mid * itemLength), needle)
         IN  IF cmp = 0 THEN base + mid * itemLength
             ELSE IF cmp < 0
             THEN binarySearchLoop(haystack, needle, base, itemLength, mid + 1, hi)
             ELSE binarySearchLoop(haystack, needle, base, itemLength, lo, mid - 1)

\* the records searched start at low, low + itemLength, ... and end by high
binarySearch(haystack, needle, low, high, itemLength) ==
    binarySearchLoop(haystack, needle, low, itemLength, 0,
                     (((high - low) + 1) \div itemLength) - 1)

\* the index found and the cursor left behind
memoizedBinarySearch(haystack, needle, low, high, itemLength, state, line, column) ==
    LET scoped == line = state.lastLine /\ column >= state.lastColumn
        from   == IF scoped THEN Max(low, state.lastIndex) ELSE low
        index  == binarySearch(haystack, needle, from, high, itemLength)
    IN  [index |-> index, lastLine |-> line, lastColumn |-> column, lastIndex |-> index]

----------------------------------------------------------------------------
(* The public operations *)

\* a mutant of traceSegment: the search starts at the head of the buffer
traceSegmentFromHead(m, li, state, line, column) ==
    IF line >= Len(li) - 1
    THEN [found |-> FALSE, segment |-> <<>>, index |-> -1, searched |-> FALSE,
          lastLine |-> state.lastLine, lastColumn |-> state.lastColumn,
          lastIndex |-> state.lastIndex]
    ELSE LET r == memoizedBinarySearch(m, column, 0, At(li, line + 1) - 1,
                                       ITEM_LENGTH, state, line, column)
         IN  [found |-> r.index >= 0,
              segment |-> IF r.index < 0 THEN <<>> ELSE segmentify(m, r.index),
              index |-> r.index, searched |-> TRUE,
              lastLine |-> r.lastLine, lastColumn |-> r.lastColumn,
              lastIndex |-> r.lastIndex]

\* a mutant of traceSegment: line and column handed over in the wrong order
traceSegmentSwapped(m, li, state, line, column) ==
    IF line >= Len(li) - 1
    THEN [found |-> FALSE, segment |-> <<>>, index |-> -1, searched |-> FALSE,
          lastLine |-> state.lastLine, lastColumn |-> state.lastColumn,
          lastIndex |-> state.lastIndex]
    ELSE LET r == memoizedBinarySearch(m, column, At(li, line), At(li, line + 1) - 1,
                                       ITEM_LENGTH, state, column, line)
         IN  [found |-> r.index >= 0,
              segment |-> IF r.index < 0 THEN <<>> ELSE segmentify(m, r.index),
              index |-> r.index, searched |-> TRUE,
              lastLine |-> r.lastLine, lastColumn |-> r.lastColumn,
              lastIndex |-> r.lastIndex]

\* traceSegment(line, column) on buffer m, line table li and cursor state:
\* what is returned (found, segment) and the cursor afterwards
traceSegment(m, li, state, line, column) ==
    IF line >= Len(li) - 1
    THEN [found |-> FALSE, segment |-> <<>>, index |-> -1, searched |-> FALSE,
          lastLine |-> state.lastLine, lastColumn |-> state.lastColumn,
          lastIndex |-> state.lastIndex]
    ELSE LET r == memoizedBinarySearch(m, column, At(li, line), At(li, line + 1) - 1,
                                       ITEM_LENGTH, state, line, column)
         IN  [found |-> r.index >= 0,
              segment |-> IF r.index < 0 THEN <<>> ELSE segmentify(m, r.index),
              index |-> r.index, searched |-> TRUE,
              lastLine |-> r.lastLine, lastColumn |-> r.lastColumn,
              lastIndex |-> r.lastIndex]

Cursor == [lastIndex |-> lastIndex, lastLine |-> lastLine, lastColumn |-> lastColumn]

TraceSegment(line, column) ==
    /\ pc = "ready"
    /\ LET r == traceSegment(mappings, lineIndices, Cursor, line, column)
       IN  /\ lastIndex' = r.lastIndex
           /\ lastLine' = r.lastLine
           /\ lastColumn' = r.lastColumn
           /\ result' = [op |-> "traceSegment", line |-> line, column |-> column,
                         found |-> r.found, segment |-> r.segment]
    /\ UNCHANGED <<encoded, pc, decodeVars, lineIndices, mappings, vlqVars>>

\* lineIndices[k]; past the end of the table it is undefined, which is never
\* === a buffer index
lineIndexAt(li, k) == IF k < Len(li) THEN At(li, k) ELSE -1

RECURSIVE closeLines(_, _, _, _, _)
\* the while loop of decodedMappings
closeLines(li, i, lineIndicesIndex, out, line) ==
    IF i = lineIndexAt(li, lineIndicesIndex)
    THEN closeLines(li, i, lineIndicesIndex + 1, Append(out, line), <<>>)
    ELSE [lineIndicesIndex |-> lineIndicesIndex, out |-> out, line |-> line]

RECURSIVE decodedMappingsLoop(_, _, _, _, _, _)
\* the for loop of decodedMappings and the push behind it
decodedMappingsLoop(m, li, i, lineIndicesIndex, out, line) ==
    IF i >= Len(m) THEN Append(out, line)
    ELSE LET w == closeLines(li, i, lineIndicesIndex, out, line)
         IN  decodedMappingsLoop(m, li, i + ITEM_LENGTH, w.lineIndicesIndex, w.out,
                                 Append(w.line, segmentify(m, i)))

decodedMappings(m, li) == decodedMappingsLoop(m, li, 0, 1, <<>>, <<>>)

\* a mutant of decodedMappings: the call rewinds the search cursor
DecodedMappingsRewinds ==
    /\ pc = "ready"
    /\ result' = [op |-> "decodedMappings", value |-> decodedMappings(mappings, lineIndices)]
    /\ lastIndex' = 0
    /\ lastLine' = 0
    /\ lastColumn' = 0
    /\ UNCHANGED <<encoded, pc, decodeVars, lineIndices, mappings, vlqVars>>

DecodedMappings ==
    /\ pc = "ready"
    /\ result' = [op |-> "decodedMappings", value |-> decodedMappings(mappings, lineIndices)]
    /\ UNCHANGED <<encoded, pc, decodeVars, lineIndices, mappings, cursorVars, vlqVars>>

EncodedMappings ==
    /\ pc = "ready"
    /\ result' = [op |-> "encodedMappings", value |-> encoded]
    /\ UNCHANGED <<encoded, pc, decodeVars, lineIndices, mappings, cursorVars, vlqVars>>

Next ==
    \/ DecodeComma
    \/ DecodeSemicolon
    \/ DecodeSegment
    \/ DecodeEnd
    \/ \E line \in 0..MaxLine, column \in 0..MaxColumn : TraceSegment(line, column)
    \/ DecodedMappings
    \/ EncodedMappings

Spec == Init /\ [][Next]_vars

----------------------------------------------------------------------------
(* decodeInteger on its own: one VLQ digit sequence, decoded into state[0] *)

ContinuationDigits == {"g", "h", "/"}

FinalDigits == {"A", "B", "C", "D", "f"}

VlqInputs ==
    { Flatten(cs) \o f :
        cs \in UNION { [1..n -> ContinuationDigits] : n \in 0..(VlqMaxLen - 1) },
        f \in FinalDigits }

InitVlq ==
    /\ vlqInput \in VlqInputs
    /\ vlqState = <<0>>
    /\ vlqPos = 0
    /\ vlqPc = "input"
    /\ encoded = ""
    /\ pc = "off"
    /\ pos = 0
    /\ count = 0
    /\ generatedColumn = 0
    /\ sourcesIndex = 1
    /\ sourceLine = 1
    /\ sourceColumn = 1
    /\ namesIndex = 1
    /\ decoded = <<>>
    /\ capacity = InitialCapacity
    /\ lastLineStart = 0
    /\ lineIndices = <<>>
    /\ mappings = <<>>
    /\ lastIndex = 0
    /\ lastLine = 0
    /\ lastColumn = 0
    /\ result = [op |-> "none"]

VlqDecodeInteger ==
    /\ vlqPc = "input"
    /\ LET r == decodeInteger(vlqInput, 0)
       IN  /\ vlqState' = <<r.value>>
           /\ vlqPos' = r.pos
    /\ vlqPc' = "done"
    /\ UNCHANGED <<encoded, pc, decodeVars, lineIndices, mappings, cursorVars, result,
                   vlqInput>>

NextVlq == VlqDecodeInteger

SpecVlq == InitVlq /\ [][NextVlq]_vars

----------------------------------------------------------------------------
(* The input read by its structure: spans between ';', groups between ',', *)
(* VLQ values by their continuation bits.                                  *)

RECURSIVE SplitFrom(_, _, _, _)
\* the pieces of s from position p on (1-based), cur being the piece begun
SplitFrom(s, sep, p, cur) ==
    IF p > Len(s) THEN <<cur>>
    ELSE IF SubSeq(s, p, p) = sep
    THEN <<cur>> \o SplitFrom(s, sep, p + 1, "")
    ELSE SplitFrom(s, sep, p + 1, cur \o SubSeq(s, p, p))

SplitOn(s, sep) == SplitFrom(s, sep, 1, "")

Spans == SplitOn(encoded, ";")

GroupsOf(span) == IF span = "" THEN <<>> ELSE SplitOn(span, ",")

IsDigit(c) == \E i \in 1..64 : SubSeq(base64, i, i) = c

RECURSIVE GroupValues(_, _)
\* the values of the VLQs of group g from 0-based position p on
GroupValues(g, p) ==
    IF p >= Len(g) THEN <<>>
    ELSE LET r == decodeInteger(g, p) IN <<r.value>> \o GroupValues(g, r.pos)

WellFormedGroup(g) ==
    /\ g /= ""
    /\ \A p \in 1..Len(g) : IsDigit(SubSeq(g, p, p))
    /\ base64Index(SubSeq(g, Len(g), Len(g))) < 32
    /\ Len(GroupValues(g, 0)) \in {1, 4, 5}

WellFormed ==
    \A i \in 1..Len(Spans) :
        \A k \in 1..Len(GroupsOf(Spans[i])) : WellFormedGroup(GroupsOf(Spans[i])[k])

RECURSIVE CountChar(_, _, _)
CountChar(s, c, p) ==
    IF p > Len(s) THEN 0
    ELSE (IF SubSeq(s, p, p) = c THEN 1 ELSE 0) + CountChar(s, c, p + 1)

NumSemicolons == CountChar(encoded, ";", 1)

RECURSIVE SpanGroups(_, _)
\* the groups of spans i, i + 1, ... in order, each with its 0-based line and
\* its 0-based place k in that line
SpanGroups(spans, i) ==
    IF i > Len(spans) THEN <<>>
    ELSE LET gs == GroupsOf(spans[i])
         IN  [k \in 1..Len(gs) |->
                 [line |-> i - 1, k |-> k - 1, vals |-> GroupValues(gs[k], 0)]]
             \o SpanGroups(spans, i + 1)

RefGroups == SpanGroups(Spans, 1)

\* acc + d when both the accumulator and the sum lie in 0 .. 2^31-1, else -1
SafeSum(acc, d) ==
    IF acc < 0 THEN -1
    ELSE IF d > 0 /\ acc > MaxInt32 - d THEN -1
    ELSE IF acc + d < 0 THEN -1
    ELSE acc + d

RECURSIVE RefWalk(_, _, _, _, _, _, _)
\* the segment every group stands for: column summed within the line, the
\* other fields summed over the whole string; ok tells that the sums stayed
\* in range and the column did not fall below the one before it in the line
RefWalk(gs, line, col, si, sl, sc, ni) ==
    IF gs = <<>> THEN <<>>
    ELSE LET g    == Head(gs)
             v    == g.vals
             c0   == IF g.line = line THEN col ELSE 0
             col2 == SafeSum(c0, v[1])
             si2  == IF Len(v) >= 4 THEN SafeSum(si, v[2]) ELSE si
             sl2  == IF Len(v) >= 4 THEN SafeSum(sl, v[3]) ELSE sl
             sc2  == IF Len(v) >= 4 THEN SafeSum(sc, v[4]) ELSE sc
             ni2  == IF Len(v) >= 5 THEN SafeSum(ni, v[5]) ELSE ni
             seg  == IF Len(v) = 1 THEN <<col2>>
                     ELSE IF Len(v) = 4 THEN <<col2, si2, sl2, sc2>>
                     ELSE <<col2, si2, sl2, sc2, ni2>>
             ok   == /\ col2 >= c0
                     /\ \A x \in {col2, si2, sl2, sc2, ni2} : x >= 0 /\ x < MaxInt32
         IN  <<[line |-> g.line, k |-> g.k, seg |-> seg, ok |-> ok, delta |-> v[1]]>>
             \o RefWalk(Tail(gs), g.line, col2, si2, sl2, sc2, ni2)

RefSegments == RefWalk(RefGroups, 0, 0, 0, 0, 0, 0)

----------------------------------------------------------------------------
(* The constructed map *)

Ready == pc = "ready"

NumLines == Len(lineIndices) - 1

LineStart(i) == At(lineIndices, i)

LineEnd(i) == At(lineIndices, i + 1)

\* the buffer indices of the records of line i
RecordIndices(i) ==
    { x \in LineStart(i)..(LineEnd(i) - 1) : (x - LineStart(i)) % ITEM_LENGTH = 0 }

\* the materialized records of line i in buffer order
LineSegments(i) ==
    [k \in 1..((LineEnd(i) - LineStart(i)) \div ITEM_LENGTH) |->
        segmentify(mappings, LineStart(i) + (k - 1) * ITEM_LENGTH)]

----------------------------------------------------------------------------
(* Properties *)

\* the records of line i whose generatedColumn is at most column
AtOrBefore(i, column) == { x \in RecordIndices(i) : ULe(At(mappings, x), column) }

\* C1: on a map built from a well-formed string, traceSegment(line, column)
\* returns a segment of that line whose generatedColumn is the greatest one
\* <= column among the records of the line's range, and returns null exactly
\* when the line has no such record or line >= number of lines.
C1_PointQuery ==
    (Ready /\ result.op = "traceSegment" /\ WellFormed) =>
        IF result.line >= NumLines THEN ~result.found
        ELSE LET cands == AtOrBefore(result.line, result.column)
             IN  IF cands = {} THEN ~result.found
                 ELSE /\ result.found
                      /\ \E x \in cands : result.segment = segmentify(mappings, x)
                      /\ \A x \in cands : ULe(At(mappings, x), result.segment[1])

\* a query inside a line of three records that hits neither the first nor the last
C1_Witness ==
    /\ Ready /\ result.op = "traceSegment" /\ WellFormed
    /\ result.line = 1 /\ result.line < NumLines
    /\ Cardinality(RecordIndices(1)) >= 3
    /\ Cardinality(AtOrBefore(1, result.column)) = 2
    /\ result.found /\ result.segment[1] = 1

\* what traceSegment returns when the line's whole range is searched
FullSearch(line, column) ==
    IF line >= NumLines THEN [found |-> FALSE, segment |-> <<>>]
    ELSE LET index == binarySearch(mappings, column, LineStart(line), LineEnd(line) - 1,
                                   ITEM_LENGTH)
         IN  [found |-> index >= 0,
              segment |-> IF index < 0 THEN <<>> ELSE segmentify(mappings, index)]

C3_DecodedFields ==
    (Ready /\ WellFormed /\ \A j \in 1..Len(RefSegments) : RefSegments[j].ok) =>
        /\ Len(mappings) = ITEM_LENGTH * Len(RefSegments)
        /\ \A j \in 1..Len(RefSegments) :
              LET r == RefSegments[j]
              IN  /\ r.line < NumLines
                  /\ (j - 1) * ITEM_LENGTH = LineStart(r.line) + r.k * ITEM_LENGTH
                  /\ (j - 1) * ITEM_LENGTH < LineEnd(r.line)
                  /\ segmentify(mappings, (j - 1) * ITEM_LENGTH) = r.seg

\* a second line whose record continues the source position of the first
\* line and starts its column anew
C3_Witness ==
    /\ Ready /\ WellFormed /\ \A j \in 1..Len(RefSegments) : RefSegments[j].ok
    /\ \E j \in 2..Len(RefSegments) :
          /\ RefSegments[j].line >= 1
          /\ Len(RefSegments[j].seg) >= 4
          /\ RefSegments[j].seg[3] >= 1
          /\ RefSegments[j].seg[4] >= 1
          /\ RefSegments[j - 1].seg[1] > RefSegments[j].seg[1]
          /\ segmentify(mappings, (j - 1) * ITEM_LENGTH) = RefSegments[j].seg

\* C4: decodedMappings() returns one sequence per generated line, that is
\* (number of ';') + 1 = length of the line table - 1 sequences, empty ones
\* for empty lines wherever they stand, and sequence i holds the
\* materialized records of the i-th range of the line table in order.
C4_OneSequencePerLine ==
    (Ready /\ result.op = "decodedMappings") =>
        /\ Len(result.value) = NumSemicolons + 1
        /\ Len(result.value) = NumLines
        /\ \A i \in 1..Len(result.value) : result.value[i] = LineSegments(i - 1)

\* record k (1-based) of the range that starts at buffer index start
RecordAt(state, start, k) ==
    slice(state, start + (k - 1) * ITEM_LENGTH, start + k * ITEM_LENGTH)

\* the range [start, end) of after holds the records of that range of before,
\* by generatedColumn ascending, equal columns in their original order, and
\* nothing else differs
StablySorted(before, after, start, end) ==
    LET n == (end - start) \div ITEM_LENGTH
    IN  /\ Len(after) = Len(before)
        /\ \A x \in 1..Len(before) : (x <= start \/ x > end) => after[x] = before[x]
        /\ \E perm \in [1..n -> 1..n] :
              /\ \A a, b \in 1..n : a /= b => perm[a] /= perm[b]
              /\ \A a \in 1..n : RecordAt(after, start, a) = RecordAt(before, start, perm[a])
              /\ \A a, b \in 1..n :
                    a < b => \/ ULt(RecordAt(after, start, a)[1], RecordAt(after, start, b)[1])
                             \/ /\ RecordAt(after, start, a)[1] = RecordAt(after, start, b)[1]
                                /\ perm[a] < perm[b]

\* the records of [start, end) are not in generatedColumn order
OutOfOrder(state, start, end) ==
    \E a, b \in 1..((end - start) \div ITEM_LENGTH) :
        a < b /\ ULt(RecordAt(state, start, b)[1], RecordAt(state, start, a)[1])

\* C5: when a line was decoded with its records out of generatedColumn
\* order, closing the line leaves in its range the very records decoded for
\* it, none lost or doubled, by generatedColumn ascending and equal columns
\* in their original order; the records of other lines are not touched.
C5_NormalizationKeepsRecords ==
    [][(pc = "decode" /\ WellFormed /\ Len(lineIndices') > Len(lineIndices)
          /\ OutOfOrder(decoded, lastLineStart, count))
       => StablySorted(decoded, decoded', lastLineStart, count)]_vars

\* the input has a group, not the first of its line, with a negative column delta
EncodesOutOfOrderLine ==
    \E j \in 2..Len(RefSegments) :
        RefSegments[j].line = RefSegments[j - 1].line /\ RefSegments[j].delta < 0

\* C6: after construction from a well-formed string, also one with a line
\* encoded out of order, the records of every line's range are
\* non-decreasing by generatedColumn, and so is every line that
\* decodedMappings() returns.
C6_LinesSorted ==
    (Ready /\ WellFormed) =>
        /\ \A i \in 0..(NumLines - 1) :
              \A x \in RecordIndices(i) :
                  x > LineStart(i) => ULe(At(mappings, x - ITEM_LENGTH), At(mappings, x))
        /\ result.op = "decodedMappings" =>
              \A i \in 1..Len(result.value) :
                  \A k \in 2..Len(result.value[i]) :
                      ULe(result.value[i][k - 1][1], result.value[i][k][1])

\* decodedMappings() has returned the lines of a map whose input has a line out of order
C6_Witness ==
    /\ Ready /\ WellFormed /\ EncodesOutOfOrderLine
    /\ result.op = "decodedMappings"
    /\ \E i \in 1..Len(result.value) : Len(result.value[i]) >= 2

\* C7: after every traceSegment(line, column) call, found or not, line in
\* range or beyond, the cursor holds the call's line and column and the
\* call's search result as last index.
C7_CursorAfterEveryCall ==
    (Ready /\ result.op = "traceSegment") =>
        /\ lastLine = result.line
        /\ lastColumn = result.column
        /\ IF result.found THEN /\ lastIndex >= 0
                                /\ result.segment = segmentify(mappings, lastIndex)
           ELSE lastIndex < 0

\* C7 as the code has it: a call with line below the number of lines leaves
\* the call's line, column and search result in the cursor; a call with a
\* line beyond them returns null and leaves the cursor as it was.
C7_CursorAfterCallInRange ==
    [][(pc = "ready" /\ result'.op = "traceSegment") =>
          IF result'.line >= NumLines
          THEN ~result'.found /\ UNCHANGED cursorVars
          ELSE /\ lastLine' = result'.line
               /\ lastColumn' = result'.column
               /\ IF result'.found
                  THEN /\ lastIndex' \in RecordIndices(result'.line)
                       /\ result'.segment = segmentify(mappings, lastIndex')
                  ELSE lastIndex' < 0]_vars

\* a call beyond the last line has returned, and the cursor still holds an
\* earlier call's line and column
C7_Witness ==
    /\ Ready /\ result.op = "traceSegment"
    /\ result.line >= NumLines /\ ~result.found
    /\ lastLine < NumLines /\ lastLine /= result.line
    /\ lastLine = 1 /\ lastColumn = 1 /\ lastIndex >= 0

RECURSIVE RefRaw(_, _)
\* the 5-bit groups of the digits of s from 1-based position p on, least
\* significant first
RefRaw(s, p) ==
    IF p > Len(s) THEN 0
    ELSE (base64Index(SubSeq(s, p, p)) % 32) + 32 * RefRaw(s, p + 1)

RefMagnitude(s) == RefRaw(s, 1) \div 2

RefSignFlag(s) == RefRaw(s, 1) % 2 = 1

\* C8: for 1 to 6 digits, decodeInteger stores (modulo 2^32) the magnitude,
\* negated when the sign flag is set; a sign flag with magnitude 0 yields 0.
C8_SignedValue ==
    (vlqPc = "done" /\ Len(vlqInput) <= 6) =>
        /\ vlqPos = Len(vlqInput)
        /\ vlqState[1] = IF RefSignFlag(vlqInput) THEN -RefMagnitude(vlqInput)
                         ELSE RefMagnitude(vlqInput)

\* C8 as the code has it: a sign flag with magnitude 0 yields -2^31 (stored
\* as 2^31); every other digit sequence yields the magnitude, negated when
\* the sign flag is set.
C8_SignedValueMinInt ==
    (vlqPc = "done" /\ Len(vlqInput) <= 6) =>
        /\ vlqPos = Len(vlqInput)
        /\ vlqState[1] = IF RefSignFlag(vlqInput) /\ RefMagnitude(vlqInput) = 0
                         THEN MinInt32
                         ELSE IF RefSignFlag(vlqInput) THEN -RefMagnitude(vlqInput)
                         ELSE RefMagnitude(vlqInput)

\* six digits with the sign flag set have been decoded to a negative value
C8_Witness ==
    /\ vlqPc = "done" /\ Len(vlqInput) = 6
    /\ RefSignFlag(vlqInput) /\ RefMagnitude(vlqInput) > 0
    /\ vlqState[1] = -RefMagnitude(vlqInput)

\* C9: after construction the line table has (number of ';') + 2 entries, is
\* non-decreasing, starts at 0 and ends at the end of the buffer; entries i
\* and i + 1 delimit the records of the i-th span; the buffer holds 5
\* integers per record, and every field a record's group does not encode is
\* 0.  Stated for well-formed strings, the ones the format defines.
C9_LineTableAndBuffer ==
    (Ready /\ WellFormed) =>
        /\ Len(lineIndices) = NumSemicolons + 2
        /\ \A i \in 1..(Len(lineIndices) - 1) : lineIndices[i] <= lineIndices[i + 1]
        /\ lineIndices[1] = 0
        /\ lineIndices[Len(lineIndices)] = Len(mappings)
        /\ \A i \in 0..(NumLines - 1) :
              LineEnd(i) - LineStart(i) = ITEM_LENGTH * Len(GroupsOf(Spans[i + 1]))
        /\ Len(mappings) = ITEM_LENGTH * Len(RefGroups)
        /\ \A j \in 1..Len(RefGroups) :
              \A f \in (Len(RefGroups[j].vals) + 1)..ITEM_LENGTH :
                  At(mappings, (j - 1) * ITEM_LENGTH + (f - 1)) = 0

\* C10: once constructed, no call changes the buffer, the line table or the
\* stored string; decodedMappings and encodedMappings leave the cursor
\* alone; encodedMappings returns the stored string and decodedMappings the
\* lines of the unchanged buffer.
C10_CallsLeaveMapAlone ==
    [][pc = "ready" =>
          /\ pc' = "ready"
          /\ mappings' = mappings
          /\ lineIndices' = lineIndices
          /\ encoded' = encoded
          /\ result'.op \in {"decodedMappings", "encodedMappings"} =>
                UNCHANGED cursorVars
          /\ result'.op = "encodedMappings" => result'.value = encoded
          /\ (result'.op = "decodedMappings" /\ result.op = "decodedMappings") =>
                result'.value = result.value]_vars

\* decodedMappings() has returned after traceSegment calls moved the cursor
C10_Witness ==
    /\ Ready /\ result.op = "decodedMappings"
    /\ Len(mappings) > 0
    /\ lastLine = 1 /\ lastColumn = 2 /\ lastIndex > 0

====
